---- MODULE Spec2Model ----
(***************************************************************************)
(* SearchFacade (src/api/worker/search/SearchFacade.js): the AND-query     *)
(* over the encrypted search index, its paging through                     *)
(* getMoreSearchResults and the concurrent element-data lookups of the     *)
(* result assembler, the index extension asked of the mail indexer and    *)
(* the two suggestion paths.                                               *)
(*                                                                         *)
(* Representation.                                                         *)
(*  - JavaScript null/undefined of a number is Null; Truthy is the         *)
(*    language's truthiness test (null, undefined and 0 are falsy).        *)
(*  - A ciphertext is the tagged tuple <<"enc", plaintext>>; decryption    *)
(*    takes the tag off.  Equal plaintexts give equal ciphertexts (the     *)
(*    index uses a fixed iv).                                              *)
(*  - An id is a number id = timestamp * IdsPerTimestamp + counter, so     *)
(*    that a larger id is a newer entity.                                  *)
(*  - A chunk descriptor's size counts all postings of the chunk.  The     *)
(*    model carries the postings of the entities 1..MaxId; a chunk of      *)
(*    size MaxEntitiesToRead holds, besides those, postings of attributes  *)
(*    outside the restriction's whitelist, which _isValidAttributeAndTime  *)
(*    removes (such chunks occur only together with a whitelist).          *)
(*  - A promise of a collaborator is the name of its state: "pending",     *)
(*    "resolved", or the error it rejected with.                           *)
(*  - A text is a sequence of characters, " " separates its words.         *)
(*  - The index stores hold what the indexer has written by the time the   *)
(*    page creates its read transaction.                                   *)
(***************************************************************************)
EXTENDS Integers, Sequences, FiniteSets, TLC

VARIABLES
    searchIndexMetaData, \* SearchIndexMetaDataOS: term -> rows (key ascending)
    searchIndex,         \* SearchIndexOS: chunk key -> encrypted entries
    elementData,         \* ElementDataOS: base64(encId) -> <<listId>>
    currentIndexTimestamp, \* _mailIndexer.currentIndexTimestamp
    now,                 \* Date.now()
    input,               \* the caller's arguments: query, restriction, maxResults
                         \* of search() and the moreResultCount values it pages with
    searchResult,        \* the SearchResult object (Null record before search)
    pc,                  \* "start" | "tryExtendIndex" | "awaitExtension" | "assemble"
                         \* | "lookups" | "loadAndReduce" | "idle" | "rejected"
    page,                \* locals of the running page
    queue,               \* Promise.map: entries whose mapper was not called yet
    inFlight,            \* transaction.get(ElementDataOS, ..) requests not answered yet
    pageNo,              \* number of pages started on searchResult
    seen,                \* per term: <<id, page>> for each qualifying posting a page read
    entities,            \* the entity loader: id -> outcome of load and the entity
    indexer,             \* _mailIndexer: mailboxIndexingPromise, the calls of
                         \* indexMailboxes and the promise of the last call
    suggestion,          \* locals of _loadAndReduce
    rejection            \* the error the promise of search rejected with, or "none"

vars == <<searchIndexMetaData, searchIndex, elementData, currentIndexTimestamp, now,
          input, searchResult, pc, page, queue, inFlight, pageNo, seen,
          entities, indexer, suggestion, rejection>>

storeVars == <<searchIndexMetaData, searchIndex, elementData, currentIndexTimestamp, now,
               entities>>

----------------------------------------------------------------------------
(* Bounds of the model *)

MaxId == 4
MaxPostings == 2
MaxPages == 3
MaxMaxResults == 2
IdsPerTimestamp == 2
HashBuckets == 2
DayLength == 2
MaxSuggestionCount == 2

(* Program constants *)

Null == -1
MaxEntitiesToRead == 1000
Concurrency == 5
FULL_INDEXED_TIMESTAMP == 0
NOTHING_INDEXED_TIMESTAMP == 1000000

Ids == 1..MaxId
Terms == {"a", "b"}
Attributes == {1, 2}
ListIds == {"L1", "L2"}
TypeRefs == {"Mail", "Contact"}
MailTypeRef == "Mail"

Truthy(x) == x # Null /\ x # 0

Min(a, b) == IF a < b THEN a ELSE b

RECURSIVE Flat(_)
Flat(ss) == IF ss = <<>> THEN <<>> ELSE Head(ss) \o Flat(Tail(ss))

RECURSIVE Reverse(_)
Reverse(s) == IF s = <<>> THEN <<>> ELSE Reverse(Tail(s)) \o <<Head(s)>>

----------------------------------------------------------------------------
(* Collaborators: encoding, encryption, id order *)

EncryptId(id) == <<"enc", id>>

EncryptSearchIndexEntry(e) ==
    [encId |-> EncryptId(e.id), encBody |-> <<"enc", <<e.attribute, e.positions>>>>]

GetIdFromEncSearchIndexEntry(enc) == enc.encId

DecryptSearchIndexEntry(enc) ==
    [id |-> enc.encId[2], encId |-> enc.encId,
     attribute |-> enc.encBody[2][1], positions |-> enc.encBody[2][2]]

ArrayHash(encId) == encId[2] % HashBuckets

Uint8ArrayToBase64(encId) == <<"b64", encId>>

TimestampToGeneratedId(ts) == ts * IdsPerTimestamp

FirstBiggerThanSecond(first, second) == first > second

\* compareNewestFirst(l, r) < 0 or = 0: l may stay in front of r
NewestFirstOrEqual(l, r) == ~FirstBiggerThanSecond(r, l)

\* Array.prototype.sort(compareNewestFirst) on result tuples [listId, id] (stable)
RECURSIVE InsertResult(_, _)
InsertResult(sorted, r) ==
    IF sorted = <<>> THEN <<r>>
    ELSE IF NewestFirstOrEqual(Head(sorted)[2], r[2])
         THEN <<Head(sorted)>> \o InsertResult(Tail(sorted), r)
         ELSE <<r>> \o sorted

\* the sort of search() left out
SortResultsNewestFirst_Unsorted(rs) == rs

RECURSIVE SortResultsNewestFirst(_)
SortResultsNewestFirst(rs) ==
    IF rs = <<>> THEN <<>>
    ELSE InsertResult(SortResultsNewestFirst(SubSeq(rs, 1, Len(rs) - 1)), rs[Len(rs)])

\* indexEntries.sort((l, r) => compareNewestFirst(l.id, r.id))
RECURSIVE InsertEntry(_, _)
InsertEntry(sorted, e) ==
    IF sorted = <<>> THEN <<e>>
    ELSE IF NewestFirstOrEqual(Head(sorted).id, e.id)
         THEN <<Head(sorted)>> \o InsertEntry(Tail(sorted), e)
         ELSE <<e>> \o sorted

RECURSIVE SortEntriesNewestFirst(_)
SortEntriesNewestFirst(es) ==
    IF es = <<>> THEN <<>>
    ELSE InsertEntry(SortEntriesNewestFirst(SubSeq(es, 1, Len(es) - 1)), es[Len(es)])

----------------------------------------------------------------------------
(* The pipeline of _startOrContinueSearch, stage by stage *)

EncryptIndexKeyBase64(searchToken) == <<"b64", <<"enc", searchToken>>>>

GetSearchEndTimestamp(restriction) ==
    IF Truthy(restriction.end) THEN restriction.end
    ELSE IF restriction.type = MailTypeRef
         THEN (IF currentIndexTimestamp = NOTHING_INDEXED_TIMESTAMP
               THEN now ELSE currentIndexTimestamp)
         ELSE FULL_INDEXED_TIMESTAMP

\* getStartOfDay(new Date(ts)).getTime(), a day being DayLength timestamps long
GetStartOfDay(ts) == ts - (ts % DayLength)

\* the characters of a search token (the tokens of the model are one letter long)
Chars(searchToken) == <<searchToken>>

\* tokenize(text): the words between the separators; word is the word being read
RECURSIVE SplitWords(_, _)
SplitWords(text, word) ==
    IF text = <<>> THEN (IF word = <<>> THEN <<>> ELSE <<word>>)
    ELSE IF Head(text) = " "
         THEN (IF word = <<>> THEN <<>> ELSE <<word>>) \o SplitWords(Tail(text), <<>>)
         ELSE SplitWords(Tail(text), Append(word, Head(text)))

Tokenize(text) == SplitWords(text, <<>>)

\* w.startsWith(prefix)
StartsWith(w, prefix) ==
    Len(w) >= Len(prefix) /\ SubSeq(w, 1, Len(prefix)) = prefix

\* resolveTypeReference: an entity type has the String value v1 (attribute 1) and the
\* aggregation a2 (attribute 2) of aggregates with the String value v3 and the
\* Number value n4
ResolveTypeReference(type) ==
    IF type = "Aggregate"
    THEN [values |-> {[name |-> "v3", id |-> 3, type |-> "String"],
                      [name |-> "n4", id |-> 4, type |-> "Number"]},
          associations |-> {}]
    ELSE [values |-> {[name |-> "v1", id |-> 1, type |-> "String"]},
          associations |-> {[name |-> "a2", id |-> 2, type |-> "Aggregation",
                             cardinality |-> "Any", refType |-> "Aggregate"]}]

\* a whitelisted attribute counts when it merely holds the token somewhere in a word
WordMatches_Contains(w, suggestionToken) ==
    \E k \in 1..Len(w) : StartsWith(SubSeq(w, k, Len(w)), suggestionToken)

\* words.find(w => w.startsWith(suggestionToken)) != null, for one word
WordMatches(w, suggestionToken) == StartsWith(w, suggestionToken)

\* attributeIds is <<>> for null, <<S>> for the array of the ids in S
RECURSIVE ContainsSuggestionToken(_, _, _, _)
ContainsSuggestionToken(entity, model, attributeIds, suggestionToken) ==
    LET named == model.values \cup model.associations
        attributeNames ==
            IF attributeIds = <<>> THEN {n.name : n \in named}
            ELSE {n.name : n \in {n \in named : n.id \in attributeIds[1]}}
        Found(attributeName) ==
            IF \E v \in model.values :
                   v.name = attributeName /\ v.type = "String" /\ entity[attributeName] # <<>>
            THEN LET words == Tokenize(entity[attributeName])
                 IN  \E k \in 1..Len(words) : WordMatches(words[k], suggestionToken)
            ELSE IF \E a \in model.associations :
                        a.name = attributeName /\ a.type = "Aggregation"
                 THEN LET a == CHOOSE a \in model.associations : a.name = attributeName
                          aggregates == IF a.cardinality = "Any" THEN entity[attributeName]
                                        ELSE <<entity[attributeName]>>
                      IN  \E k \in 1..Len(aggregates) :
                             ContainsSuggestionToken(aggregates[k],
                                 ResolveTypeReference(a.refType), <<>>, suggestionToken)
                 ELSE FALSE
    IN  \E attributeName \in attributeNames : Found(attributeName)

\* the catch handlers of the reduce callback leave out NotAuthorizedError
LoadFailureSkipped_NotFoundOnly(outcome) == outcome = "NotFound"

\* .catch(NotFoundError, ..).catch(NotAuthorizedError, ..) of the reduce callback
LoadFailureSkipped(outcome) == outcome \in {"NotFound", "NotAuthorized"}

\* load(restriction.type, result): the outcome and, when it is "ok", the entity
Load(idTuple) ==
    IF idTuple[2] \in DOMAIN entities THEN entities[idTuple[2]]
    ELSE [outcome |-> "NotFound"]

\* the condition of the then-callback of _tryExtendIndex
ExtensionRequired(restriction, indexTimestamp) ==
    /\ indexTimestamp > FULL_INDEXED_TIMESTAMP
    /\ Truthy(restriction.end)
    /\ indexTimestamp > restriction.end

\* a rejection passes the handler unchanged
CatchCancelledError_NotCaught(outcome) == outcome

\* promise.catch(CancelledError, e => {console.log(..)}): the outcome of the new promise
CatchCancelledError(outcome) == IF outcome = "Cancelled" THEN "resolved" ELSE outcome

\* the callback runs although the promise is pending
Settled_Always(promise) == TRUE

\* a then-callback of a promise runs only when the promise is no longer pending
Settled(promise) == promise # "pending"

\* the filter callback without the test of entitiesToRead
RowsToRead_NoCap(filteredRows, fromRow, maxResults, entitiesToRead, lastReadRowId) ==
    LET Selected(r) == ~Truthy(maxResults) \/ ~Truthy(fromRow) \/ r.key < fromRow
        rows == SelectSeq(filteredRows, Selected)
    IN  [rowsToRead |-> rows,
         lastReadRowId |-> IF Truthy(maxResults) /\ rows # <<>>
                           THEN rows[Len(rows)].key ELSE lastReadRowId]

\* the filter callback over filteredRows with its two counters
RECURSIVE RowsToRead(_, _, _, _, _)
RowsToRead(filteredRows, fromRow, maxResults, entitiesToRead, lastReadRowId) ==
    IF filteredRows = <<>>
    THEN [rowsToRead |-> <<>>, lastReadRowId |-> lastReadRowId]
    ELSE LET r == Head(filteredRows)
             counted == Truthy(maxResults)
                        /\ (~Truthy(fromRow) \/ r.key < fromRow)
                        /\ entitiesToRead < MaxEntitiesToRead
             keep == IF Truthy(maxResults) THEN counted ELSE TRUE
             rest == RowsToRead(Tail(filteredRows), fromRow, maxResults,
                                IF counted THEN entitiesToRead + r.size ELSE entitiesToRead,
                                IF counted THEN r.key ELSE lastReadRowId)
         IN  [rowsToRead |-> IF keep THEN <<r>> \o rest.rowsToRead ELSE rest.rowsToRead,
              lastReadRowId |-> rest.lastReadRowId]

FindEntriesForMetadata(entry) ==
    IF entry.key \in DOMAIN searchIndex THEN searchIndex[entry.key] ELSE <<>>

FindEntriesForSearchToken(searchTokenInfo, restriction, maxResults) ==
    LET searchToken == searchTokenInfo[1]
        fromRow == searchTokenInfo[2]
        safeRows == IF searchToken \in DOMAIN searchIndexMetaData
                    THEN searchIndexMetaData[searchToken] ELSE <<>>
        TypeMatches(r) == r.type = restriction.type
        filteredRows == Reverse(SelectSeq(safeRows, TypeMatches))
        sel == RowsToRead(filteredRows, fromRow, maxResults, 0, 0)
        indexEntries == Flat([i \in 1..Len(sel.rowsToRead) |->
                                  FindEntriesForMetadata(sel.rowsToRead[i])])
    IN  [indexKey |-> EncryptIndexKeyBase64(searchToken),
         indexEntries |-> [i \in 1..Len(indexEntries) |->
                              [encEntry |-> indexEntries[i],
                               idHash |-> ArrayHash(GetIdFromEncSearchIndexEntry(indexEntries[i]))]],
         rowsToRead |-> sel.rowsToRead,
         lastReadRowId |-> sel.lastReadRowId]

FindIndexEntries(lastReadSearchIndexRow, restriction, maxResults) ==
    [i \in 1..Len(lastReadSearchIndexRow) |->
        FindEntriesForSearchToken(lastReadSearchIndexRow[i], restriction, maxResults)]

\* matchingEncIds never taken from the first term: every term narrows the empty set
MatchingEncIds_NoInit(results, i, matching) ==
    {h \in UNION {{results[k].indexEntries[j].idHash : j \in 1..Len(results[k].indexEntries)} :
                      k \in 1..Len(results)} : h \in matching}

\* the forEach that narrows matchingEncIds term by term (i = next term to visit)
RECURSIVE MatchingEncIds(_, _, _)
MatchingEncIds(results, i, matching) ==
    IF i > Len(results) THEN matching
    ELSE LET hashes == {results[i].indexEntries[j].idHash :
                            j \in 1..Len(results[i].indexEntries)}
         IN  MatchingEncIds(results, i + 1,
                            IF i = 1 THEN hashes ELSE {h \in hashes : h \in matching})

FilterByEncryptedId(results) ==
    LET matchingEncIds == MatchingEncIds(results, 1, {})
        Has(entry) == entry.idHash \in matchingEncIds
    IN  [i \in 1..Len(results) |->
            [indexKey |-> results[i].indexKey,
             indexEntries |-> SelectSeq(results[i].indexEntries, Has)]]

DecryptSearchResult(results) ==
    [i \in 1..Len(results) |->
        [indexKey |-> results[i].indexKey,
         indexEntries |-> [j \in 1..Len(results[i].indexEntries) |->
                              DecryptSearchIndexEntry(results[i].indexEntries[j].encEntry)]]]

\* the upper bound of the time window left out
IsValidAttributeAndTime_NoUpperBound(restriction, entry, minIncludedId, maxExcludedId) ==
    IF restriction.attributeIds # <<>> /\ entry.attribute \notin restriction.attributeIds[1]
    THEN FALSE
    ELSE ~FirstBiggerThanSecond(minIncludedId, entry.id)

IsValidAttributeAndTime(restriction, entry, minIncludedId, maxExcludedId) ==
    IF restriction.attributeIds # <<>> /\ entry.attribute \notin restriction.attributeIds[1]
    THEN FALSE
    ELSE IF Truthy(maxExcludedId) /\ ~FirstBiggerThanSecond(maxExcludedId, entry.id)
         THEN FALSE
         ELSE ~FirstBiggerThanSecond(minIncludedId, entry.id)

\* the ids of the first term taken as the ids that are in all of the search words
MatchingIds_FirstTermOnly(results, i, matching) ==
    {results[1].indexEntries[j].id : j \in 1..Len(results[1].indexEntries)}

\* the forEach that narrows matchingIds term by term (i = next term to visit)
RECURSIVE MatchingIds(_, _, _)
MatchingIds(results, i, matching) ==
    IF i > Len(results) THEN matching
    ELSE LET ids == {results[i].indexEntries[j].id : j \in 1..Len(results[i].indexEntries)}
         IN  MatchingIds(results, i + 1,
                         IF i = 1 THEN ids ELSE {id \in ids : id \in matching})

FilterByTypeAndAttributeAndTime(results, restriction) ==
    LET endTimestamp == GetSearchEndTimestamp(restriction)
        minIncludedId == TimestampToGeneratedId(endTimestamp)
        maxExcludedId == IF Truthy(restriction.start)
                         THEN TimestampToGeneratedId(restriction.start + 1) ELSE Null
        Valid(entry) == IsValidAttributeAndTime(restriction, entry, minIncludedId, maxExcludedId)
        valid == [i \in 1..Len(results) |->
                     [indexKey |-> results[i].indexKey,
                      indexEntries |-> SelectSeq(results[i].indexEntries, Valid)]]
        matchingIds == MatchingIds(valid, 1, {})
        Has(entry) == entry.id \in matchingIds
    IN  [i \in 1..Len(valid) |->
            [indexKey |-> valid[i].indexKey,
             indexEntries |-> SelectSeq(valid[i].indexEntries, Has)]]

\* the entry of the next word found by id alone
RECURSIVE FindEntryIndex_AnyAttribute(_, _, _, _)
FindEntryIndex_AnyAttribute(indexEntries, j, id, attribute) ==
    IF j > Len(indexEntries) THEN 0
    ELSE IF indexEntries[j].id = id THEN j
         ELSE FindEntryIndex_AnyAttribute(indexEntries, j + 1, id, attribute)

\* indexEntries.find(e => e.id === id && e.attribute === attribute): 0 when undefined
RECURSIVE FindEntryIndex(_, _, _, _)
FindEntryIndex(indexEntries, j, id, attribute) ==
    IF j > Len(indexEntries) THEN 0
    ELSE IF indexEntries[j].id = id /\ indexEntries[j].attribute = attribute THEN j
         ELSE FindEntryIndex(indexEntries, j + 1, id, attribute)

\* positions.find(position => position === wanted), taken as a boolean by filter
FindsPosition(positions, wanted) ==
    \E j \in 1..Len(positions) : positions[j] = wanted /\ positions[j] # 0

\* the for loop over the next words; i is the 1-based index of the word, i - 1 its offset
RECURSIVE FilteredPositions(_, _, _, _)
FilteredPositions(results, firstWordEntry, i, filteredPositions) ==
    IF i > Len(results) THEN filteredPositions
    ELSE LET j == FindEntryIndex(results[i].indexEntries, 1,
                                 firstWordEntry.id, firstWordEntry.attribute)
             InOrder(firstWordPosition) ==
                 FindsPosition(results[i].indexEntries[j].positions, firstWordPosition + (i - 1))
         IN  FilteredPositions(results, firstWordEntry, i + 1,
                               IF j # 0 THEN SelectSeq(filteredPositions, InOrder) ELSE <<>>)

ReduceWords(results, matchWordOrder) ==
    IF matchWordOrder
    THEN LET Keep(firstWordEntry) ==
                 Len(FilteredPositions(results, firstWordEntry, 2, firstWordEntry.positions)) > 0
         IN  SelectSeq(results[1].indexEntries, Keep)
    ELSE results[1].indexEntries

RECURSIVE UniqueElementIds(_, _, _)
UniqueElementIds(results, uniqueIds, previousIds) ==
    IF results = <<>> THEN <<>>
    ELSE LET entry == Head(results)
         IN  IF entry.id \notin uniqueIds /\ entry.id \notin previousIds
             THEN <<entry>> \o UniqueElementIds(Tail(results), uniqueIds \cup {entry.id}, previousIds)
             ELSE UniqueElementIds(Tail(results), uniqueIds, previousIds)

ReduceToUniqueElementIds(results, previousResult) ==
    UniqueElementIds(results, {},
                     {previousResult.results[k][2] : k \in 1..Len(previousResult.results)})

\* the slice left out: every entry of the page is handed to Promise.map
EntriesToLookUp_NoSlice(indexEntries, maxResults) ==
    SortEntriesNewestFirst(indexEntries)

\* indexEntries.sort(..) and .slice(0, maxResults || indexEntries.length + 1)
EntriesToLookUp(indexEntries, maxResults) ==
    LET sorted == SortEntriesNewestFirst(indexEntries)
    IN  SubSeq(sorted, 1,
               Min(Len(sorted), IF Truthy(maxResults) THEN maxResults ELSE Len(sorted) + 1))

\* _findIndexEntries .. _reduceToUniqueElementIds for one page of sr
PageEntries(sr, maxResults) ==
    LET found == FindIndexEntries(sr.lastReadSearchIndexRow, sr.restriction, maxResults)
        filtered == FilterByTypeAndAttributeAndTime(
                        DecryptSearchResult(FilterByEncryptedId(found)), sr.restriction)
        reduced == ReduceWords(filtered, sr.matchWordOrder)
    IN  [found |-> found,
         filtered |-> filtered,
         reduced |-> reduced,
         unique |-> ReduceToUniqueElementIds(reduced, sr)]

----------------------------------------------------------------------------
(* Store contents and arguments the model starts from *)

TermIndex(term) == IF term = "a" THEN 1 ELSE 2

\* SearchIndexOS keys grow with the time of writing; the j-th chunk of a term
KeyOf(term, j) == (j - 1) * Cardinality(Terms) + TermIndex(term)

\* postings of one term: (id, attribute) -> chunk number and positions
PostingMaps(ids, attributes, chunks, positionChoices, maxPostings) ==
    UNION {[D -> [chunk : chunks, positions : positionChoices]] :
              D \in {D \in SUBSET (ids \X attributes) : Cardinality(D) <= maxPostings}}

PostingBefore(k1, k2) == k1[1] < k2[1] \/ (k1[1] = k2[1] /\ k1[2] < k2[2])

RECURSIVE KeysInOrder(_)
KeysInOrder(D) ==
    IF D = {} THEN <<>>
    ELSE LET first == CHOOSE k \in D : \A o \in D \ {k} : PostingBefore(k, o)
         IN  <<first>> \o KeysInOrder(D \ {first})

\* the plaintext postings the indexer wrote into chunk j of a term
ChunkPostings(postings, j) ==
    LET keys == KeysInOrder({k \in DOMAIN postings : postings[k].chunk = j})
    IN  [n \in 1..Len(keys) |->
            [id |-> keys[n][1], attribute |-> keys[n][2],
             positions |-> postings[keys[n]].positions]]

\* layout[term] = [postings, big (per chunk), type (per chunk)]
MetaDataOf(layout) ==
    [t \in Terms |->
        [j \in 1..Len(layout[t].big) |->
            [key |-> KeyOf(t, j),
             size |-> IF layout[t].big[j] THEN MaxEntitiesToRead
                      ELSE Len(ChunkPostings(layout[t].postings, j)),
             type |-> layout[t].type[j]]]]

ChunkKeys(layout) == UNION {{<<t, j>> : j \in 1..Len(layout[t].big)} : t \in Terms}

SearchIndexOf(layout) ==
    LET slots == ChunkKeys(layout)
        SlotOf(key) == CHOOSE tj \in slots : KeyOf(tj[1], tj[2]) = key
    IN  [key \in {KeyOf(tj[1], tj[2]) : tj \in slots} |->
            LET posts == ChunkPostings(layout[SlotOf(key)[1]].postings, SlotOf(key)[2])
            IN  [n \in 1..Len(posts) |-> EncryptSearchIndexEntry(posts[n])]]

ElementDataOf(lists) ==
    [k \in {Uint8ArrayToBase64(EncryptId(id)) : id \in DOMAIN lists} |-> <<lists[k[2][2]]>>]

NoSearchResult ==
    [query |-> [tokens |-> <<>>, quoted |-> FALSE],
     restriction |-> [type |-> "Contact", attributeIds |-> <<>>, listId |-> "",
                      start |-> Null, end |-> Null],
     results |-> <<>>,
     currentIndexTimestamp |-> Null,
     moreResultsEntries |-> <<>>,
     lastReadSearchIndexRow |-> <<>>,
     matchWordOrder |-> FALSE]

NoPage == [kind |-> "none", maxResults |-> Null, previousMaxResults |-> Null,
           fromRows |-> <<>>, rowsToRead |-> <<>>, filtered |-> <<>>, reduced |-> <<>>,
           unique |-> <<>>, stopped |-> FALSE, resultsBefore |-> <<>>]

NoSuggestion == [token |-> "", candidates |-> <<>>, next |-> 1, finalResults |-> <<>>,
                 loaded |-> <<>>]

\* the mail indexer with no indexing under way
IdleIndexer == [mailboxIndexingPromise |-> "resolved", indexMailboxesCalls |-> <<>>,
                requestPromise |-> "none"]

\* the stores, the collaborators and the arguments of search before search is called
InitSearch(layouts, lists, timestamps, inputs, entityMaps, indexingPromises) ==
    /\ \E layout \in layouts :
          /\ searchIndexMetaData = MetaDataOf(layout)
          /\ searchIndex = SearchIndexOf(layout)
    /\ \E l \in lists : elementData = ElementDataOf(l)
    /\ currentIndexTimestamp \in timestamps
    /\ now = MaxId
    /\ input \in inputs
    /\ \A t \in Terms : \A j \in 1..Len(searchIndexMetaData[t]) :
          searchIndexMetaData[t][j].size = MaxEntitiesToRead =>
              input.restriction.attributeIds # <<>>
    /\ entities \in entityMaps
    /\ \E promise \in indexingPromises :
          indexer = [IdleIndexer EXCEPT !.mailboxIndexingPromise = promise]
    /\ searchResult = NoSearchResult
    /\ pc = "start"
    /\ page = NoPage
    /\ queue = {}
    /\ inFlight = {}
    /\ pageNo = 0
    /\ seen = <<>>
    /\ suggestion = NoSuggestion
    /\ rejection = "none"

\* search(query, restriction, 0, maxResults) with no suggestion facade registered
InitWith(layouts, lists, timestamps, queries, restrictions, maxes, moreCounts) ==
    InitSearch(layouts, lists, timestamps,
               [query : queries, restriction : restrictions, maxResults : maxes,
                moreResultCounts : {moreCounts}, minSuggestionCount : {0},
                suggestionTypes : {{}}, suggestions : {<<>>}],
               {<<>>}, {"resolved"})

AllL1 == {[id \in Ids |-> "L1"]}
MaxResultsChoices == {Null} \cup (0..MaxMaxResults)
MoreResultCounts == 1..(MaxMaxResults + 1)
Whitelisted == [type |-> "Contact", attributeIds |-> <<{1, 2}>>, listId |-> "",
                start |-> Null, end |-> Null]
ContactChunks(postings, big) ==
    [postings |-> postings, big |-> big, type |-> [j \in 1..Len(big) |-> "Contact"]]
NoPostings == ContactChunks(<<>>, <<>>)

\* one term, two chunks, an id may be posted under two attributes
InitSingleTerm ==
    InitWith({[a |-> ContactChunks(p, big), b |-> NoPostings] :
                 p \in PostingMaps(Ids, Attributes, {1, 2}, {<<1>>}, MaxPostings),
                 big \in [1..2 -> BOOLEAN]},
             AllL1, {FULL_INDEXED_TIMESTAMP},
             {[tokens |-> <<"a">>, quoted |-> FALSE]},
             {Whitelisted}, MaxResultsChoices, MoreResultCounts)

\* two terms whose cursors advance independently
InitTwoTerms ==
    InitWith({[a |-> ContactChunks(pa, big), b |-> ContactChunks(pb, <<FALSE>>)] :
                 pa \in PostingMaps(1..(MaxId - 1), {1}, {1, 2}, {<<1>>}, MaxPostings),
                 pb \in PostingMaps(1..(MaxId - 1), {1}, {1}, {<<1>>}, 1),
                 big \in [1..2 -> BOOLEAN]},
             AllL1, {FULL_INDEXED_TIMESTAMP},
             {[tokens |-> <<"a", "b">>, quoted |-> FALSE],
              [tokens |-> <<"b", "a">>, quoted |-> FALSE]},
             {Whitelisted}, MaxResultsChoices, MoreResultCounts)

\* attribute whitelist, time window and type of the restriction; one page, no paging
InitRestricted ==
    InitWith({[a |-> [postings |-> pa, big |-> <<FALSE>>, type |-> <<t>>],
               b |-> [postings |-> pb, big |-> <<FALSE>>, type |-> <<t>>]] :
                 pa \in PostingMaps(Ids, Attributes, {1}, {<<1>>}, MaxPostings),
                 pb \in PostingMaps(Ids, {1}, {1}, {<<1>>}, 1),
                 t \in TypeRefs},
             AllL1, {FULL_INDEXED_TIMESTAMP, 1, NOTHING_INDEXED_TIMESTAMP},
             {[tokens |-> <<"a">>, quoted |-> FALSE],
              [tokens |-> <<"a", "b">>, quoted |-> FALSE]},
             [type : TypeRefs, attributeIds : {<<>>, <<{1}>>}, listId : {""},
              start : {Null, 1}, end : {Null, 1}],
             {Null}, {})

\* element data missing or of another list
InitListId ==
    InitWith({[a |-> ContactChunks(pa, <<FALSE>>), b |-> NoPostings] :
                 pa \in PostingMaps(Ids, {1}, {1}, {<<1>>}, MaxPostings)},
             UNION {[D -> ListIds] : D \in SUBSET Ids}, {FULL_INDEXED_TIMESTAMP},
             {[tokens |-> <<"a">>, quoted |-> FALSE]},
             [type : {"Contact"}, attributeIds : {<<>>}, listId : {"", "L1"},
              start : {Null}, end : {Null}],
             {Null}, {})

PositionChoices == {<<1>>, <<0, 2>>, <<1, 2>>}

\* quoted queries: positions inside two attributes of two entities
InitPhrase ==
    InitWith({[a |-> ContactChunks(pa, <<FALSE>>), b |-> ContactChunks(pb, <<FALSE>>)] :
                 pa \in PostingMaps(1..2, Attributes, {1}, PositionChoices, MaxPostings),
                 pb \in PostingMaps(1..2, Attributes, {1}, PositionChoices, MaxPostings)},
             AllL1, {FULL_INDEXED_TIMESTAMP},
             {[tokens |-> <<"a", "b">>, quoted |-> TRUE],
              [tokens |-> <<"a", "a">>, quoted |-> TRUE],
              [tokens |-> <<"a", "b", "a">>, quoted |-> TRUE]},
             [type : {"Contact"}, attributeIds : {<<>>, <<{1}>>}, listId : {""},
              start : {Null}, end : {Null}],
             {Null}, {})

\* a page that stops while lookups are in flight: Concurrency results from search,
\* Concurrency + 1 entries in the next chunk, one of them posted again in the oldest
StragglerIds == 1..(2 * Concurrency + 1)

StragglerPostings(again) ==
    [k \in ({<<id, 1>> : id \in StragglerIds} \cup {<<again, 2>>}) |->
        [chunk |-> IF k[2] = 2 THEN 1 ELSE IF k[1] <= Concurrency + 1 THEN 2 ELSE 3,
         positions |-> <<1>>]]

InitStraggler ==
    InitWith({[a |-> ContactChunks(StragglerPostings(again), <<FALSE, TRUE, TRUE>>),
               b |-> NoPostings] : again \in Concurrency..(Concurrency + 1)},
             {[id \in StragglerIds |-> "L1"]}, {FULL_INDEXED_TIMESTAMP},
             {[tokens |-> <<"a">>, quoted |-> FALSE]},
             {Whitelisted}, {Concurrency}, {Concurrency + 1, Concurrency + 2})

\* the Mail type: the indexer's horizon, an indexing under way or ended, a search
\* that reaches back beyond the horizon or not
IndexTimestamps == {FULL_INDEXED_TIMESTAMP, 1, 2, 3, NOTHING_INDEXED_TIMESTAMP}

InitIndexer ==
    InitSearch({[a |-> [postings |-> pa, big |-> <<FALSE>>, type |-> <<"Mail">>],
                 b |-> NoPostings] :
                   pa \in PostingMaps(Ids, {1}, {1}, {<<1>>}, MaxPostings)},
               AllL1, IndexTimestamps,
               [query : {[tokens |-> <<"a">>, quoted |-> FALSE],
                         [tokens |-> <<>>, quoted |-> FALSE]},
                restriction : [type : {"Mail"}, attributeIds : {<<>>}, listId : {""},
                               start : {Null}, end : {Null, 1, 2}],
                maxResults : {Null}, moreResultCounts : {{}}, minSuggestionCount : {0},
                suggestionTypes : {{}}, suggestions : {<<>>}],
               {<<>>}, {"pending", "resolved", "Cancelled", "Error"})

SuggestionIds == 1..3

\* one term with a suggestion facade for the type: what getSuggestions returns
InitSingleSuggestion ==
    InitSearch({[a |-> ContactChunks(pa, <<FALSE>>), b |-> ContactChunks(pb, <<FALSE>>)] :
                   pa \in PostingMaps(SuggestionIds, {1}, {1}, {<<1>>}, MaxPostings),
                   pb \in PostingMaps(SuggestionIds, {1}, {1}, {<<1>>}, MaxPostings)},
               AllL1, {FULL_INDEXED_TIMESTAMP},
               [query : {[tokens |-> <<"a">>, quoted |-> FALSE]},
                restriction : [type : {"Contact"}, attributeIds : {<<>>}, listId : {""},
                               start : {Null}, end : {Null}],
                maxResults : {Null, 1}, moreResultCounts : {{}}, minSuggestionCount : {1},
                suggestionTypes : {{"Contact"}},
                suggestions : {<<>>, <<"a">>, <<"a", "b">>}],
               {<<>>}, {"resolved"})

\* what load gives for an id: an entity whose text holds "ba", "b a", or "ab" inside
\* an aggregate, or a failure
NoEntity == [v1 |-> <<>>, a2 |-> <<>>]

EntityChoices ==
    {[outcome |-> "ok", entity |-> [v1 |-> <<"b", "a">>, a2 |-> <<>>]],
     [outcome |-> "ok", entity |-> [v1 |-> <<"b", " ", "a">>, a2 |-> <<>>]],
     [outcome |-> "ok", entity |-> [v1 |-> <<>>,
                                    a2 |-> <<[v3 |-> <<"a", "b">>, n4 |-> 1]>>]],
     [outcome |-> "NotFound", entity |-> NoEntity],
     [outcome |-> "NotAuthorized", entity |-> NoEntity],
     [outcome |-> "Error", entity |-> NoEntity]}

\* several terms with a suggestion facade for the type: the last token is the
\* suggestion token, the candidates are loaded one by one
InitMultiSuggestion ==
    InitSearch({[a |-> ContactChunks([k \in SuggestionIds \X {1} |->
                                         [chunk |-> 1, positions |-> <<1>>]], <<FALSE>>),
                 b |-> ContactChunks(pb, <<FALSE>>)] :
                   pb \in PostingMaps(SuggestionIds, {1}, {1}, {<<1>>}, 3)},
               {[id \in SuggestionIds |-> "L1"]}, {FULL_INDEXED_TIMESTAMP},
               [query : {[tokens |-> <<"a", "b">>, quoted |-> FALSE],
                         [tokens |-> <<"b", "a">>, quoted |-> FALSE],
                         [tokens |-> <<"a", "b", "a">>, quoted |-> FALSE]},
                restriction : [type : {"Contact"}, attributeIds : {<<>>, <<{1}>>, <<{2}>>},
                               listId : {""}, start : {Null}, end : {Null}],
                maxResults : {Null}, moreResultCounts : {{}},
                minSuggestionCount : 1..MaxSuggestionCount,
                suggestionTypes : {{"Contact"}}, suggestions : {<<>>}],
               [SuggestionIds -> EntityChoices], {"resolved"})

Init == InitSingleTerm \/ InitTwoTerms \/ InitRestricted \/ InitListId \/ InitPhrase
        \/ InitStraggler \/ InitIndexer \/ InitSingleSuggestion \/ InitMultiSuggestion

----------------------------------------------------------------------------
(* Operations *)

\* Promise.map(slice, mapper, {concurrency: 5}) at its start: the mapper runs for the
\* the mapper without the test of searchResult.results.length against maxResults
StartMap_NoStop(entries, maxResults, results) ==
    [stopped |-> FALSE,
     started |-> {entries[i] : i \in 1..Min(Len(entries), Concurrency)},
     queued |-> {entries[i] : i \in (Concurrency + 1)..Len(entries)}]

\* first entries until 5 requests are in flight; a mapper that returns without a
\* request (the stop branch) takes no slot.
StartMap(entries, maxResults, results) ==
    IF Truthy(maxResults) /\ Len(results) >= maxResults
    THEN [stopped |-> entries # <<>>, started |-> {}, queued |-> {}]
    ELSE [stopped |-> FALSE,
          started |-> {entries[i] : i \in 1..Min(Len(entries), Concurrency)},
          queued |-> {entries[i] : i \in (Concurrency + 1)..Len(entries)}]

\* the ids of the postings of one term read by a page that pass the restriction
QualifyingIds(found, restriction) ==
    LET minIncludedId == TimestampToGeneratedId(GetSearchEndTimestamp(restriction))
        maxExcludedId == IF Truthy(restriction.start)
                         THEN TimestampToGeneratedId(restriction.start + 1) ELSE Null
        entries == [j \in 1..Len(found.indexEntries) |->
                       DecryptSearchIndexEntry(found.indexEntries[j].encEntry)]
    IN  {entries[j].id : j \in {j \in 1..Len(entries) :
            IsValidAttributeAndTime(restriction, entries[j], minIncludedId, maxExcludedId)}}

\* _startOrContinueSearch up to the creation of the ElementDataOS transaction
StartPage(sr, kind, maxResults) ==
    \E p \in {PageEntries(sr, maxResults)} :
        /\ searchResult' =
              [sr EXCEPT !.lastReadSearchIndexRow =
                  [i \in 1..Len(sr.lastReadSearchIndexRow) |->
                      <<sr.lastReadSearchIndexRow[i][1], p.found[i].lastReadRowId>>]]
        /\ page' = [kind |-> kind, maxResults |-> maxResults,
                    previousMaxResults |-> page.maxResults,
                    fromRows |-> [i \in 1..Len(sr.lastReadSearchIndexRow) |->
                                     sr.lastReadSearchIndexRow[i][2]],
                    rowsToRead |-> [i \in 1..Len(p.found) |->
                                       [n \in 1..Len(p.found[i].rowsToRead) |->
                                           p.found[i].rowsToRead[n].key]],
                    filtered |-> [i \in 1..Len(p.filtered) |-> p.filtered[i].indexEntries],
                    reduced |-> p.reduced,
                    unique |-> SortEntriesNewestFirst(p.unique),
                    stopped |-> FALSE,
                    resultsBefore |-> sr.results]
        /\ pc' = "assemble"
        /\ pageNo' = pageNo + 1
        /\ seen' = [i \in 1..Len(p.found) |->
                       (IF i \in DOMAIN seen THEN seen[i] ELSE {})
                       \cup {<<id, pageNo + 1>> : id \in QualifyingIds(p.found[i], sr.restriction)}]

\* the SearchResult object literal of search(); query.tokens is tokenize(query) and
\* query.quoted is query.startsWith("\"") && query.endsWith("\"")
NewSearchResult(query, restriction) ==
    [query |-> query,
     restriction |-> restriction,
     results |-> <<>>,
     currentIndexTimestamp |-> GetSearchEndTimestamp(restriction),
     moreResultsEntries |-> <<>>,
     lastReadSearchIndexRow |-> [i \in 1..Len(query.tokens) |-> <<query.tokens[i], Null>>],
     matchWordOrder |-> Len(query.tokens) > 1 /\ query.quoted]

\* the branch search() takes: this._suggestionFacades.find(..) is defined for the
\* types of input.suggestionTypes
SearchPath ==
    LET isFirstWordSearch == Len(input.query.tokens) = 1
        suggestionFacade == input.restriction.type \in input.suggestionTypes
    IN  IF input.minSuggestionCount > 0 /\ isFirstWordSearch /\ suggestionFacade
        THEN "single"
        ELSE IF input.minSuggestionCount > 0 /\ ~isFirstWordSearch /\ suggestionFacade
             THEN "multi"
             ELSE "normal"

\* the maxResults argument search() passes to _searchForTokens
SearchMaxResults == IF SearchPath = "multi" THEN Null ELSE input.maxResults

\* _searchForTokens: _tryExtendIndex, then _startOrContinueSearch; for the Mail type
\* the rest waits for this._mailIndexer.mailboxIndexingPromise.  The suggestions
\* argument is not used by the code.
SearchForTokens(sr, suggestions, maxResults) ==
    IF sr.restriction.type = MailTypeRef
    THEN /\ searchResult' = sr
         /\ pc' = "tryExtendIndex"
         /\ UNCHANGED <<page, pageNo, seen>>
    ELSE StartPage(sr, "search", maxResults)

Search ==
    /\ pc = "start"
    /\ LET searchTokens == input.query.tokens
           result == NewSearchResult(input.query, input.restriction)
           popped == [result EXCEPT !.lastReadSearchIndexRow =
                                       SubSeq(@, 1, Len(@) - 1)]
       IN  IF Len(searchTokens) > 0
           THEN SearchForTokens(IF SearchPath = "multi" THEN popped ELSE result,
                                IF SearchPath = "single" THEN input.suggestions
                                ELSE IF SearchPath = "multi"
                                     THEN <<searchTokens[Len(searchTokens)]>>
                                     ELSE <<>>,
                                SearchMaxResults)
           ELSE /\ searchResult' = result
                /\ pc' = "idle"
                /\ UNCHANGED <<page, pageNo, seen>>
    /\ UNCHANGED <<storeVars, input, queue, inFlight, indexer, suggestion, rejection>>

\* the promise of _tryExtendIndex settled with outcome: the pipeline starts or the
\* promise of search rejects
AfterTryExtendIndex(outcome) ==
    IF outcome \in {"Cancelled", "Error"}
    THEN /\ pc' = "rejected"
         /\ rejection' = outcome
         /\ UNCHANGED <<searchResult, page, pageNo, seen>>
    ELSE /\ StartPage(searchResult, "search", SearchMaxResults)
         /\ UNCHANGED rejection

\* the then-callback of _tryExtendIndex on mailboxIndexingPromise and the catch
\* behind it
TryExtendIndex ==
    /\ pc = "tryExtendIndex"
    /\ Settled(indexer.mailboxIndexingPromise)
    /\ IF indexer.mailboxIndexingPromise \notin {"Cancelled", "Error"}
          /\ ExtensionRequired(searchResult.restriction, currentIndexTimestamp)
       THEN /\ indexer' =
                  [mailboxIndexingPromise |-> "pending",
                   indexMailboxesCalls |->
                       Append(indexer.indexMailboxesCalls,
                              GetStartOfDay(searchResult.restriction.end)),
                   requestPromise |-> "pending"]
            /\ pc' = "awaitExtension"
            /\ UNCHANGED <<searchResult, page, pageNo, seen, rejection>>
       ELSE /\ AfterTryExtendIndex(CatchCancelledError(indexer.mailboxIndexingPromise))
            /\ UNCHANGED indexer
    /\ UNCHANGED <<storeVars, input, queue, inFlight, suggestion>>

\* the mailboxIndexingPromise returned from the then-callback has settled
AwaitExtension ==
    /\ pc = "awaitExtension"
    /\ Settled(indexer.mailboxIndexingPromise)
    /\ AfterTryExtendIndex(CatchCancelledError(indexer.mailboxIndexingPromise))
    /\ UNCHANGED <<storeVars, input, queue, inFlight, indexer, suggestion>>

\* the indexer ends the indexing under way: its promise settles, the promise of
\* the indexMailboxes call settles, the horizon may have reached the asked timestamp.
\* An indexing that was under way when search was called (the initial indexing, an
\* extension asked by an earlier search) may have moved the horizon to any older
\* timestamp.
IndexingEnds ==
    /\ indexer.mailboxIndexingPromise = "pending"
    /\ \E outcome \in {"resolved", "Cancelled", "Error"} :
       \E requestOutcome \in (IF indexer.requestPromise = "pending"
                               THEN {"resolved", "Cancelled"}
                               ELSE {indexer.requestPromise}) :
          indexer' = [indexer EXCEPT !.mailboxIndexingPromise = outcome,
                                     !.requestPromise = requestOutcome]
    /\ currentIndexTimestamp' \in
          {currentIndexTimestamp} \cup
          (IF indexer.indexMailboxesCalls = <<>>
           THEN {t \in IndexTimestamps : t < currentIndexTimestamp}
           ELSE {indexer.indexMailboxesCalls[Len(indexer.indexMailboxesCalls)]})
    /\ UNCHANGED <<searchIndexMetaData, searchIndex, elementData, now, entities, input,
                   searchResult, pc, page, queue, inFlight, pageNo, seen, suggestion,
                   rejection>>

GetMoreSearchResults(moreResultCount) ==
    /\ pc = "idle"
    /\ pageNo >= 1
    /\ pageNo <= MaxPages
    /\ StartPage(searchResult, "more", moreResultCount)
    /\ UNCHANGED <<storeVars, input, queue, inFlight, indexer, suggestion, rejection>>

\* _filterByListIdAndGroupSearchResults once the transaction exists
FilterByListIdAndGroupSearchResults ==
    /\ pc = "assemble"
    /\ LET m == StartMap(EntriesToLookUp(page.unique, page.maxResults),
                         page.maxResults, searchResult.results)
       IN  /\ inFlight' = inFlight \cup {[page |-> pageNo, entry |-> e] : e \in m.started}
           /\ queue' = m.queued
           /\ page' = [page EXCEPT !.stopped = m.stopped]
    /\ pc' = "lookups"
    /\ UNCHANGED <<storeVars, input, searchResult, pageNo, seen, indexer, suggestion,
                   rejection>>

\* a transaction.get(ElementDataOS, ..) answers; its then-callback runs and the map
\* of the page, when it still runs, calls the mapper for a queued entry
CompleteLookup(l) ==
    /\ l \in inFlight
    /\ LET key == Uint8ArrayToBase64(l.entry.encId)
           found == key \in DOMAIN elementData
           listId == searchResult.restriction.listId
           push == found /\ (listId = "" \/ listId = elementData[key][1])
           results == IF push
                      THEN Append(searchResult.results, <<elementData[key][1], l.entry.id>>)
                      ELSE searchResult.results
           mine == l.page = pageNo /\ pc = "lookups" /\ queue # {}
           stop == Truthy(page.maxResults) /\ Len(results) >= page.maxResults
       IN  /\ searchResult' = [searchResult EXCEPT !.results = results]
           /\ IF mine /\ stop
              THEN /\ queue' = {}
                   /\ page' = [page EXCEPT !.stopped = TRUE]
                   /\ inFlight' = inFlight \ {l}
              ELSE IF mine
                   THEN \E e \in queue :
                           /\ queue' = queue \ {e}
                           /\ inFlight' = (inFlight \ {l}) \cup {[page |-> pageNo, entry |-> e]}
                           /\ page' = page
                   ELSE /\ inFlight' = inFlight \ {l}
                        /\ UNCHANGED <<queue, page>>
    /\ UNCHANGED <<storeVars, input, pc, pageNo, seen, indexer, suggestion, rejection>>

\* Promise.race settles: the page's promise resolves.  search() sorts before it
\* returns; on the multi-term suggestion path it sorts and starts _loadAndReduce,
\* which resolves at once with [] when there is no candidate.
ResolvePage ==
    /\ pc = "lookups"
    /\ page.stopped \/ (queue = {} /\ \A l \in inFlight : l.page # pageNo)
    /\ LET sorted == SortResultsNewestFirst(searchResult.results)
       IN  IF page.kind = "search" /\ SearchPath = "multi" /\ Len(sorted) > 0
           THEN /\ searchResult' = [searchResult EXCEPT !.results = sorted]
                /\ suggestion' =
                      [token |-> input.query.tokens[Len(input.query.tokens)],
                       candidates |-> sorted, next |-> 1, finalResults |-> <<>>,
                       loaded |-> <<>>]
                /\ pc' = "loadAndReduce"
           ELSE /\ searchResult' =
                      IF page.kind = "search"
                      THEN [searchResult EXCEPT !.results = sorted]
                      ELSE searchResult
                /\ pc' = "idle"
                /\ UNCHANGED suggestion
    /\ UNCHANGED <<storeVars, input, page, queue, inFlight, pageNo, seen, indexer,
                   rejection>>

\* one call of the callback of Promise.reduce in _loadAndReduce
LoadAndReduce ==
    /\ pc = "loadAndReduce"
    /\ suggestion.next <= Len(suggestion.candidates)
    /\ LET result == suggestion.candidates[suggestion.next]
           loaded == Load(result)
           found == ContainsSuggestionToken(loaded.entity,
                        ResolveTypeReference(searchResult.restriction.type),
                        searchResult.restriction.attributeIds, Chars(suggestion.token))
           visited == [suggestion EXCEPT !.next = @ + 1]
           tried == [visited EXCEPT !.loaded = Append(@, result[2])]
       IN  IF Len(suggestion.finalResults) >= input.minSuggestionCount
           THEN suggestion' = visited /\ UNCHANGED <<pc, rejection>>
           ELSE IF loaded.outcome = "ok"
                THEN /\ suggestion' = IF found
                                      THEN [tried EXCEPT !.finalResults = Append(@, result)]
                                      ELSE tried
                     /\ UNCHANGED <<pc, rejection>>
                ELSE IF LoadFailureSkipped(loaded.outcome)
                     THEN suggestion' = tried /\ UNCHANGED <<pc, rejection>>
                     ELSE /\ suggestion' = tried
                          /\ pc' = "rejected"
                          /\ rejection' = loaded.outcome
    /\ UNCHANGED <<storeVars, input, searchResult, page, queue, inFlight, pageNo, seen,
                   indexer>>

\* Promise.reduce is through: result.results = filteredResults, then the sort of search
LoadAndReduceDone ==
    /\ pc = "loadAndReduce"
    /\ suggestion.next > Len(suggestion.candidates)
    /\ searchResult' = [searchResult EXCEPT
                            !.results = SortResultsNewestFirst(suggestion.finalResults)]
    /\ pc' = "idle"
    /\ UNCHANGED <<storeVars, input, page, queue, inFlight, pageNo, seen, indexer,
                   suggestion, rejection>>

Next ==
    \/ Search
    \/ TryExtendIndex
    \/ AwaitExtension
    \/ IndexingEnds
    \/ \E moreResultCount \in input.moreResultCounts : GetMoreSearchResults(moreResultCount)
    \/ FilterByListIdAndGroupSearchResults
    \/ \E l \in inFlight : CompleteLookup(l)
    \/ ResolvePage
    \/ LoadAndReduce
    \/ LoadAndReduceDone

Spec == Init /\ [][Next]_vars

TypeOK == pc \in {"start", "tryExtendIndex", "awaitExtension", "assemble", "lookups",
                  "loadAndReduce", "idle", "rejected"}

----------------------------------------------------------------------------
(* Properties *)

ResultIds == [k \in 1..Len(searchResult.results) |-> searchResult.results[k][2]]

StrictlyDecreasing(ids) == \A k \in 1..(Len(ids) - 1) : ids[k] > ids[k + 1]

NoDuplicates(ids) == \A k, n \in 1..Len(ids) : k # n => ids[k] # ids[n]

\* the promise returned by search(q, r, 0, m) has resolved and no further page was
\* asked for
SearchReturned ==
    pc = "idle" /\ pageNo = 1 /\ page.kind = "search" /\ input.minSuggestionCount = 0

\* the promise of the last page has resolved and no lookup is outstanding
PageReturned == pc = "idle" /\ pageNo >= 1 /\ inFlight = {}

\* C3: the results of the SearchResult that search(q, r, 0, m) returns are strictly
\* decreasing by id, whatever the order in which the element-data lookups answered.
C3_SearchResultsStrictlyDecreasing ==
    SearchReturned => StrictlyDecreasing(ResultIds)

C3_Witness ==
    SearchReturned /\ Len(searchResult.results) >= 2

\* C4 (as stated): for every supplied maxResults m >= 0 the SearchResult returned by
\* search(q, r, 0, m) has at most m results.
C4_AtMostMaxResultsFromZero ==
    (SearchReturned /\ input.maxResults # Null) =>
        Len(searchResult.results) <= input.maxResults

\* C4 (amended): for every supplied maxResults m >= 1 the SearchResult returned by
\* search(q, r, 0, m) has at most m results; m = 0 is treated like no maxResults.
C4_AtMostMaxResults ==
    (SearchReturned /\ input.maxResults # Null /\ input.maxResults >= 1) =>
        Len(searchResult.results) <= input.maxResults

C4_Witness ==
    /\ SearchReturned
    /\ input.maxResults # Null /\ input.maxResults >= 1
    /\ Len(searchResult.results) = input.maxResults
    /\ Len(page.unique) > input.maxResults

\* C6: in every SearchResult a caller observes (after search and after every
\* getMoreSearchResults) results is strictly decreasing by id.
C6_ObservedResultsStrictlyDecreasing ==
    pc = "idle" => StrictlyDecreasing(ResultIds)

\* C7: after a page executed with maxResults set, the next page reads for each term
\* only chunks whose key is strictly smaller than the cursor that page stored.
C7_NextPageReadsBelowCursor ==
    (page.kind = "more" /\ Truthy(page.previousMaxResults)) =>
        \A i \in 1..Len(page.rowsToRead) :
            \A n \in 1..Len(page.rowsToRead[i]) :
                page.rowsToRead[i][n] < page.fromRows[i]

\* C9: when a page stops because results reached maxResults, every matching entry of
\* the page that was not added to results is stored in moreResultsEntries.
C9_RemainingEntriesPreserved ==
    (PageReturned /\ Truthy(page.maxResults)
       /\ Len(searchResult.results) >= page.maxResults) =>
        \A n \in 1..Len(page.unique) :
            \/ \E k \in 1..Len(ResultIds) : ResultIds[k] = page.unique[n].id
            \/ \E k \in 1..Len(searchResult.moreResultsEntries) :
                   searchResult.moreResultsEntries[k].id = page.unique[n].id

\* what search(q, r, 0, no maxResults) returns on the store: every entry of the one
\* page is looked up, the entries with element data of the wanted list are pushed,
\* and search sorts
FullSearchResults ==
    LET sr == NewSearchResult(input.query, input.restriction)
        entries == SortEntriesNewestFirst(PageEntries(sr, Null).unique)
        Pushed(e) ==
            /\ Uint8ArrayToBase64(e.encId) \in DOMAIN elementData
            /\ \/ sr.restriction.listId = ""
               \/ sr.restriction.listId = elementData[Uint8ArrayToBase64(e.encId)][1]
        pushed == SelectSeq(entries, Pushed)
    IN  SortResultsNewestFirst(
            [k \in 1..Len(pushed) |->
                <<elementData[Uint8ArrayToBase64(pushed[k].encId)][1], pushed[k].id>>])

\* C2: once a getMoreSearchResults call adds nothing, the accumulated results are
\* exactly the results of search(q, r, 0, no maxResults), in the same order.
C2_PagesEqualFullSearch ==
    (PageReturned /\ page.kind = "more" /\ Len(input.query.tokens) > 0
       /\ input.minSuggestionCount = 0
       /\ searchResult.results = page.resultsBefore) =>
        searchResult.results = FullSearchResults

\* the pages that read a qualifying posting of id for term i
PagesThatRead(i, id) == {sp[2] : sp \in {sp \in seen[i] : sp[1] = id}}

\* C8: an id with a qualifying posting for every term, whose postings the pages read
\* for different terms in different pages, is in results (or pending in
\* moreResultsEntries) once its posting has been read for every term.
C8_MatchAcrossPagesNotLost ==
    PageReturned =>
        \A id \in UNION {{sp[1] : sp \in seen[i]} : i \in DOMAIN seen} :
            (/\ Len(seen) >= 2
             /\ \A i \in DOMAIN seen : PagesThatRead(i, id) # {}
             /\ \A n \in 1..pageNo : \E i \in DOMAIN seen : n \notin PagesThatRead(i, id)) =>
                \/ \E k \in 1..Len(ResultIds) : ResultIds[k] = id
                \/ \E k \in 1..Len(searchResult.moreResultsEntries) :
                       searchResult.moreResultsEntries[k].id = id

\* C5: results never contains the same entity id twice, however many
\* getMoreSearchResults calls were awaited one after the other.
C5_NoDuplicateResults == NoDuplicates(ResultIds)

\* the decrypted postings of a term in the chunks of an entity type
PostingsOf(term, type) ==
    LET rows == searchIndexMetaData[term]
    IN  UNION {{DecryptSearchIndexEntry(searchIndex[rows[j].key][n]) :
                   n \in 1..Len(searchIndex[rows[j].key])} :
               j \in {j \in 1..Len(rows) : rows[j].type = type}}

\* the postings of a term that the restriction r accepts: attribute in the whitelist
\* (when set) and minId <= id < maxId (maxId only when r.start is set)
AcceptedPostings(term, r) ==
    {e \in PostingsOf(term, r.type) :
        /\ r.attributeIds # <<>> => e.attribute \in r.attributeIds[1]
        /\ TimestampToGeneratedId(GetSearchEndTimestamp(r)) <= e.id
        /\ r.start # Null => e.id < TimestampToGeneratedId(r.start + 1)}

HasPosition(e, position) == \E k \in 1..Len(e.positions) : e.positions[k] = position

\* the terms occur at consecutive positions inside one (accepted) attribute of id
InWordOrder(id, tokens, r) ==
    \E e1 \in AcceptedPostings(tokens[1], r) :
        /\ e1.id = id
        /\ \E k \in 1..Len(e1.positions) :
              \A i \in 2..Len(tokens) :
                  \E e \in AcceptedPostings(tokens[i], r) :
                      /\ e.id = id
                      /\ e.attribute = e1.attribute
                      /\ HasPosition(e, e1.positions[k] + (i - 1))

ExpectedIds(tokens, r, matchWordOrder) ==
    {id \in {k[2][2] : k \in DOMAIN elementData} :
        /\ r.listId # "" => elementData[Uint8ArrayToBase64(EncryptId(id))][1] = r.listId
        /\ \A i \in 1..Len(tokens) : \E e \in AcceptedPostings(tokens[i], r) : e.id = id
        /\ matchWordOrder => InWordOrder(id, tokens, r)}

\* C1: search(q, r, 0, no maxResults) returns an entity (with element data of the
\* wanted list) if and only if every term has a posting of r.type for it that the
\* restriction accepts and, with matchWordOrder, the terms occur at consecutive
\* positions inside one accepted attribute.
C1_SearchReturnsExactlyTheMatches ==
    (SearchReturned /\ input.maxResults = Null) =>
        {ResultIds[k] : k \in 1..Len(ResultIds)}
            = ExpectedIds(input.query.tokens, input.restriction, searchResult.matchWordOrder)

\* a match is returned while another entity posted for every term is kept out
C1_Witness ==
    /\ SearchReturned /\ input.maxResults = Null
    /\ Len(input.query.tokens) >= 2
    /\ Len(searchResult.results) >= 1
    /\ \E id \in Ids :
          /\ \A i \in 1..Len(input.query.tokens) :
                \E e \in PostingsOf(input.query.tokens[i], input.restriction.type) : e.id = id
          /\ \A k \in 1..Len(ResultIds) : ResultIds[k] # id

\* C10: with matchWordOrder, an entry e1 of the first term is kept by the phrase
\* reduction if and only if for some position p of e1 every further term i has a
\* posting of the same id and the same attribute holding position p + i.
C10_PhraseReduction ==
    (page.kind # "none" /\ searchResult.matchWordOrder) =>
        \A n \in 1..Len(page.filtered[1]) :
            LET e1 == page.filtered[1][n]
            IN  (\E k \in 1..Len(page.reduced) : page.reduced[k] = e1)
                <=> \E j \in 1..Len(e1.positions) :
                       \A i \in 2..Len(page.filtered) :
                          \E m \in 1..Len(page.filtered[i]) :
                             /\ page.filtered[i][m].id = e1.id
                             /\ page.filtered[i][m].attribute = e1.attribute
                             /\ HasPosition(page.filtered[i][m], e1.positions[j] + (i - 1))

\* one entry is kept while another is dropped although the next term follows it at
\* the consecutive position in a different attribute of the same entity
C10_Witness ==
    /\ page.kind # "none" /\ searchResult.matchWordOrder
    /\ Len(page.reduced) >= 1
    /\ \E n \in 1..Len(page.filtered[1]) :
          /\ \A k \in 1..Len(page.reduced) : page.reduced[k] # page.filtered[1][n]
          /\ \E m \in 1..Len(page.filtered[2]) :
                /\ page.filtered[2][m].id = page.filtered[1][n].id
                /\ page.filtered[2][m].attribute # page.filtered[1][n].attribute
                /\ \E j \in 1..Len(page.filtered[1][n].positions) :
                      HasPosition(page.filtered[2][m], page.filtered[1][n].positions[j] + 1)

----------------------------------------------------------------------------
(* Suggestion paths and token order *)

\* the promise returned by search() has resolved on whatever path, and no further
\* page was asked for
AnySearchReturned == pc = "idle" /\ pageNo = 1 /\ page.kind = "search"

ResultIdSet == {ResultIds[k] : k \in 1..Len(ResultIds)}

\* the words of a text: the maximal runs of characters without a separator
WordsOf(text) ==
    {SubSeq(text, i, j) : i \in 1..Len(text), j \in 1..Len(text)} \cap
    UNION {{SubSeq(text, i, j) : j \in {j \in i..Len(text) :
                /\ \A k \in i..j : text[k] # " "
                /\ (i = 1 \/ text[i - 1] = " ")
                /\ (j = Len(text) \/ text[j + 1] = " ")}} : i \in 1..Len(text)}

\* the texts an entity holds under an attribute id: its own String value, or the
\* String values of the aggregates of its aggregation
TextsOf(entity, attributeId) ==
    IF attributeId = 1 THEN {entity.v1}
    ELSE IF attributeId = 2 THEN {entity.a2[k].v3 : k \in 1..Len(entity.a2)}
         ELSE {}

\* some whitelisted attribute of the entity holds a word that starts with the token
HasWordWithPrefix(entity, attributeIds, token) ==
    \E attributeId \in (IF attributeIds = <<>> THEN Attributes ELSE attributeIds[1]) :
        \E text \in TextsOf(entity, attributeId) :
            \E w \in WordsOf(text) :
                /\ Len(w) >= Len(token)
                /\ \A k \in 1..Len(token) : w[k] = token[k]

\* the candidates of the multi-term suggestion path for the tokens: the matches of
\* all tokens but the last
Candidates(tokens) ==
    ExpectedIds(SubSeq(tokens, 1, Len(tokens) - 1), input.restriction,
                Len(tokens) > 1 /\ input.query.quoted)

\* the candidates whose entity loads and holds a word starting with the last token
PassingCandidates(tokens) ==
    {id \in Candidates(tokens) :
        /\ id \in DOMAIN entities
        /\ entities[id].outcome = "ok"
        /\ HasWordWithPrefix(entities[id].entity, input.restriction.attributeIds,
                             Chars(tokens[Len(tokens)]))}

\* the newest count of a set of ids
Newest(ids, count) == {id \in ids : Cardinality({o \in ids : o > id}) < count}

\* the ids one page of search pushes for the tokens on the normal and on the
\* single-term path
SearchIdsNormal(tokens, maxResults) ==
    LET sr == NewSearchResult([tokens |-> tokens, quoted |-> input.query.quoted],
                              input.restriction)
        entries == EntriesToLookUp(PageEntries(sr, maxResults).unique, maxResults)
        Pushed(e) ==
            /\ Uint8ArrayToBase64(e.encId) \in DOMAIN elementData
            /\ \/ sr.restriction.listId = ""
               \/ sr.restriction.listId = elementData[Uint8ArrayToBase64(e.encId)][1]
    IN  {entries[k].id : k \in {k \in 1..Len(entries) : Pushed(entries[k])}}

\* the result ids of search() for the tokens, on the path search() takes
SearchIdsOf(tokens) ==
    IF SearchPath = "multi"
    THEN Newest(PassingCandidates(tokens), input.minSuggestionCount)
    ELSE SearchIdsNormal(tokens, SearchMaxResults)

TokenOrders(tokens) ==
    {[i \in 1..Len(tokens) |-> tokens[p[i]]] :
        p \in {p \in [1..Len(tokens) -> 1..Len(tokens)] :
                  \A i, j \in 1..Len(tokens) : i # j => p[i] # p[j]}}

NoLoadError == \A id \in DOMAIN entities : entities[id].outcome # "Error"

\* C11 (as stated): with matchWordOrder false, search returns the same set of result
\* ids for every permutation of the query's tokens (same restriction, same
\* maxResults, same minSuggestionCount).
C11_TokenOrderIrrelevant ==
    (AnySearchReturned /\ Len(input.query.tokens) > 0 /\ ~searchResult.matchWordOrder
       /\ NoLoadError) =>
        \A tokens \in TokenOrders(input.query.tokens) : ResultIdSet = SearchIdsOf(tokens)

\* C11 (amended): with matchWordOrder false, a search that does not take the
\* multi-term suggestion path returns the same set of result ids for every
\* permutation of the query's tokens.
C11_TokenOrderIrrelevantToIntersection ==
    (AnySearchReturned /\ Len(input.query.tokens) > 0 /\ ~searchResult.matchWordOrder
       /\ SearchPath # "multi") =>
        \A tokens \in TokenOrders(input.query.tokens) :
            ResultIdSet = SearchIdsNormal(tokens, SearchMaxResults)

\* two tokens with different postings, the first with more ids than the result
C11_Witness ==
    /\ AnySearchReturned /\ ~searchResult.matchWordOrder /\ SearchPath # "multi"
    /\ Len(input.query.tokens) = 2
    /\ Len(searchResult.results) >= 1
    /\ Cardinality({e.id : e \in PostingsOf(input.query.tokens[1], input.restriction.type)})
           > Len(searchResult.results)
    /\ PostingsOf(input.query.tokens[1], input.restriction.type)
           # PostingsOf(input.query.tokens[2], input.restriction.type)

----------------------------------------------------------------------------
(* Index extension *)

\* the condition under which the index is to be extended, on the indexer's horizon
ExtensionCondition ==
    /\ input.restriction.type = MailTypeRef
    /\ input.restriction.end # Null /\ input.restriction.end # 0
    /\ currentIndexTimestamp > FULL_INDEXED_TIMESTAMP
    /\ currentIndexTimestamp > input.restriction.end

\* indexMailboxes is called in this step, with start_of_day(restriction.end)
ExtensionAsked ==
    indexer'.indexMailboxesCalls =
        Append(indexer.indexMailboxesCalls, GetStartOfDay(input.restriction.end))

\* C12: a search with at least one token calls indexMailboxes (target
\* start_of_day(restriction.end)) exactly when restriction.type is Mail,
\* restriction.end is set and the indexer's horizon is above FULL_INDEXED_TIMESTAMP
\* and above restriction.end; otherwise, and for every other type, it never calls
\* it; it calls it at most once.
C12_ExtensionAskedExactlyWhenRequired ==
    /\ [][(pc = "tryExtendIndex" /\ pc' # pc) =>
             /\ ExtensionAsked <=> ExtensionCondition
             /\ ExtensionAsked \/ indexer'.indexMailboxesCalls = indexer.indexMailboxesCalls]_vars
    /\ [](Len(indexer.indexMailboxesCalls) <= 1)
    /\ [](input.restriction.type # MailTypeRef => indexer.indexMailboxesCalls = <<>>)

\* C13: when the indexer's promise, or the promise of the indexMailboxes call, ends
\* with a Cancelled error, search does not reject: the wait ends with the start of
\* the pipeline, and search never rejects with Cancelled.
C13_CancelledDoesNotReject ==
    /\ [][(/\ pc \in {"tryExtendIndex", "awaitExtension"} /\ pc' # pc
            /\ \/ indexer.mailboxIndexingPromise = "Cancelled"
               \/ (indexer.requestPromise = "Cancelled"
                     /\ indexer.mailboxIndexingPromise = "resolved")) =>
             (pc' = "assemble" /\ pageNo' = 1 /\ rejection' = "none")]_vars
    /\ [](rejection # "Cancelled")

\* a search has returned results after the extension it asked for was cancelled
C13_Witness ==
    /\ AnySearchReturned
    /\ indexer.mailboxIndexingPromise = "Cancelled"
    /\ indexer.requestPromise = "Cancelled"
    /\ Len(searchResult.results) >= 1

\* C14: a search for the Mail type creates its read transaction on the index stores
\* (and reads postings) only when the indexer's promise is no longer pending; when it
\* asked for an extension, only after the promise of that extension has settled.
C14_ReadsAfterIndexing ==
    [][(pageNo = 0 /\ pageNo' = 1 /\ input.restriction.type = MailTypeRef) =>
          /\ indexer.mailboxIndexingPromise # "pending"
          /\ indexer.indexMailboxesCalls # <<>> => pc = "awaitExtension"]_vars

\* the page of a Mail search has read postings after the extension it asked for
\* moved the horizon
C14_Witness ==
    /\ pageNo = 1 /\ input.restriction.type = MailTypeRef
    /\ indexer.indexMailboxesCalls # <<>>
    /\ currentIndexTimestamp = indexer.indexMailboxesCalls[1]
    /\ Len(page.reduced) >= 1

----------------------------------------------------------------------------
(* Suggestion paths *)

\* the ids with an accepted posting (and element data of the wanted list) for at
\* least one of the completions
CompletionIds ==
    UNION {ExpectedIds(<<input.suggestions[k]>>, input.restriction, FALSE) :
              k \in 1..Len(input.suggestions)}

\* C15: on the single-term suggestion path the result ids are the union of the
\* postings of all completions getSuggestions(token) returned, capped at maxResults.
C15_SingleTermSuggestionUnion ==
    (AnySearchReturned /\ SearchPath = "single") =>
        ResultIdSet = IF Truthy(input.maxResults)
                      THEN Newest(CompletionIds, input.maxResults)
                      ELSE CompletionIds

LoadedIdSet == {suggestion.loaded[k] : k \in 1..Len(suggestion.loaded)}

\* C16: on the multi-term suggestion path the candidates (the matches of all tokens
\* but the last) are visited newest first, one at a time; results is the first
\* min(c, number of passing candidates) passing candidates in that order, a
\* candidate passing when its loaded entity holds, in a whitelisted attribute, a
\* word that starts with the last token; no entity is loaded once c have passed.
C16_MultiTermSuggestionFilter ==
    (AnySearchReturned /\ SearchPath = "multi") =>
        LET passing == PassingCandidates(input.query.tokens)
        IN  /\ StrictlyDecreasing(ResultIds)
            /\ ResultIdSet = Newest(passing, input.minSuggestionCount)
            /\ Len(ResultIds) <= input.minSuggestionCount
            /\ StrictlyDecreasing(suggestion.loaded)
            /\ LoadedIdSet =
                  {id \in Candidates(input.query.tokens) :
                      Cardinality({o \in passing : o > id}) < input.minSuggestionCount}

\* the newest candidate was loaded and did not pass, a later one passed as the c-th,
\* and a still later one, which would pass, was not loaded
C16_Witness ==
    /\ AnySearchReturned /\ SearchPath = "multi"
    /\ Len(ResultIds) = input.minSuggestionCount
    /\ \E id \in LoadedIdSet : id \notin ResultIdSet
    /\ \E id \in PassingCandidates(input.query.tokens) : id \notin LoadedIdSet

\* the outcome of loading the candidate _loadAndReduce is about to visit
NextLoadOutcome ==
    LET id == suggestion.candidates[suggestion.next][2]
    IN  IF id \in DOMAIN entities THEN entities[id].outcome ELSE "NotFound"

\* C20: on the multi-term suggestion path a load failing with NotFound or
\* NotAuthorized drops that candidate only (the accepted candidates are kept, the
\* next candidate is visited); a load failing with another error makes the promise
\* of search reject with that error.
C20_LoadFailures ==
    [][(/\ pc = "loadAndReduce"
        /\ suggestion.next <= Len(suggestion.candidates)
        /\ Len(suggestion.finalResults) < input.minSuggestionCount
        /\ suggestion' # suggestion) =>
          /\ NextLoadOutcome \in {"NotFound", "NotAuthorized"} =>
                /\ suggestion'.finalResults = suggestion.finalResults
                /\ suggestion'.next = suggestion.next + 1
                /\ pc' = "loadAndReduce"
                /\ rejection' = "none"
          /\ NextLoadOutcome \notin {"ok", "NotFound", "NotAuthorized"} =>
                /\ pc' = "rejected"
                /\ rejection' = NextLoadOutcome]_vars

\* search has returned a candidate accepted before and one accepted after a
\* candidate whose load failed with NotAuthorized
C20_Witness ==
    /\ AnySearchReturned /\ SearchPath = "multi"
    /\ \E failed \in LoadedIdSet :
          /\ entities[failed].outcome = "NotAuthorized"
          /\ \E newer, older \in ResultIdSet : newer > failed /\ failed > older

----------------------------------------------------------------------------
(* Cursors and the per-page cap *)

\* C17: EXHAUSTED is absorbing: once a page found no chunk to read for a term, every
\* later page reads no chunk for that term, and once this holds for every term a
\* later page finds nothing to add.
C17_ExhaustedIsAbsorbing ==
    [][(pageNo >= 1 /\ pageNo' = pageNo + 1) =>
          /\ \A i \in 1..Len(page.rowsToRead) :
                page.rowsToRead[i] = <<>> => page'.rowsToRead[i] = <<>>
          /\ (\A i \in 1..Len(page.rowsToRead) : page.rowsToRead[i] = <<>>) =>
                page'.unique = <<>>]_vars

\* the keys of the chunk descriptors of the i-th term of the page, of the
\* restriction's type
DescriptorKeys(i) ==
    LET rows == searchIndexMetaData[searchResult.lastReadSearchIndexRow[i][1]]
    IN  {rows[j].key : j \in {j \in 1..Len(rows) :
                                 rows[j].type = searchResult.restriction.type}}

\* the size field of the descriptor with the key
SizeOfRow(i, key) ==
    LET rows == searchIndexMetaData[searchResult.lastReadSearchIndexRow[i][1]]
    IN  rows[CHOOSE j \in 1..Len(rows) : rows[j].key = key].size

RECURSIVE SumOfSizes(_, _)
SumOfSizes(i, keys) ==
    IF keys = <<>> THEN 0 ELSE SizeOfRow(i, Head(keys)) + SumOfSizes(i, Tail(keys))

\* keys is the newest-first run of the newest descriptors among eligible
NewestRun(keys, eligible) ==
    /\ StrictlyDecreasing(keys)
    /\ {keys[n] : n \in 1..Len(keys)} = Newest(eligible, Len(keys))

\* C18 (as stated): in a page executed with maxResults set, the descriptors selected
\* for a term are a contiguous newest-first run of the descriptors with
\* key < lastRead, and the sum of their sizes is strictly less than 1000.
C18_PageReadsLessThanCap ==
    (page.kind # "none" /\ Truthy(page.maxResults)) =>
        \A i \in 1..Len(page.rowsToRead) :
            /\ NewestRun(page.rowsToRead[i],
                         {k \in DescriptorKeys(i) :
                             page.fromRows[i] = Null \/ k < page.fromRows[i]})
            /\ SumOfSizes(i, page.rowsToRead[i]) < MaxEntitiesToRead

\* C18 (amended): in a page executed with maxResults set, the descriptors selected
\* for a term are a contiguous newest-first run of the eligible descriptors (those
\* with key < lastRead; all descriptors when lastRead is none or 0); the sum of the
\* sizes of the selected descriptors without the oldest one is strictly less than
\* 1000, and the run ends before the oldest eligible descriptor only when the sum
\* of the selected sizes has reached 1000.
C18_PageReadsUntilCapReached ==
    (page.kind # "none" /\ Truthy(page.maxResults)) =>
        \A i \in 1..Len(page.rowsToRead) :
            LET selected == page.rowsToRead[i]
                eligible == {k \in DescriptorKeys(i) :
                                ~Truthy(page.fromRows[i]) \/ k < page.fromRows[i]}
            IN  /\ NewestRun(selected, eligible)
                /\ selected # <<>> =>
                      SumOfSizes(i, SubSeq(selected, 1, Len(selected) - 1))
                          < MaxEntitiesToRead
                /\ Len(selected) < Cardinality(eligible) =>
                      SumOfSizes(i, selected) >= MaxEntitiesToRead

\* a later page selected a descriptor with which the sum of the sizes reached 1000
\* and left an older descriptor for the next page
C18_Witness ==
    /\ page.kind = "more" /\ Truthy(page.maxResults)
    /\ \E i \in 1..Len(page.rowsToRead) :
          /\ Truthy(page.fromRows[i])
          /\ page.rowsToRead[i] # <<>>
          /\ SumOfSizes(i, page.rowsToRead[i]) >= MaxEntitiesToRead
          /\ \E k \in DescriptorKeys(i) :
                k < page.rowsToRead[i][Len(page.rowsToRead[i])]

(***************************************************************************)
(* The pre-intersection by id hash                                         *)
(***************************************************************************)

\* what _findIndexEntries handed to the page in progress: the chunks read from the
\* cursors the page started with
FoundByPage ==
    FindIndexEntries([i \in 1..Len(searchResult.lastReadSearchIndexRow) |->
                         <<searchResult.lastReadSearchIndexRow[i][1], page.fromRows[i]>>],
                     searchResult.restriction, page.maxResults)

\* the entries of a page with their id hashes taken from the hash function h
Rehash(found, h) ==
    [i \in 1..Len(found) |->
        [indexKey |-> found[i].indexKey,
         indexEntries |-> [j \in 1..Len(found[i].indexEntries) |->
             [encEntry |-> found[i].indexEntries[j].encEntry,
              idHash |-> h[GetIdFromEncSearchIndexEntry(found[i].indexEntries[j].encEntry)]]]]]

EncIdsOf(found) ==
    UNION {{GetIdFromEncSearchIndexEntry(found[i].indexEntries[j].encEntry) :
               j \in 1..Len(found[i].indexEntries)} : i \in 1..Len(found)}

PlainIdsOf(results, i) ==
    {DecryptSearchIndexEntry(results[i].indexEntries[j].encEntry).id :
        j \in 1..Len(results[i].indexEntries)}

\* C19: the pre-intersection by id hash (Phase A) never changes the answer.  For every
\* page, and for every hash function on the encrypted ids the page read (collisions
\* between different ids allowed), the per-term entries left after Phase A,
\* decryption and _filterByTypeAndAttributeAndTime are the entries left when Phase A
\* is skipped; the entries the page went on with are those entries too.
C19_PhaseAChangesNothing ==
    (pc = "assemble") =>
        LET found == FoundByPage
            skipped == FilterByTypeAndAttributeAndTime(DecryptSearchResult(found),
                                                       searchResult.restriction)
        IN  /\ page.filtered = [i \in 1..Len(skipped) |-> skipped[i].indexEntries]
            /\ \A h \in [EncIdsOf(found) -> 0..(HashBuckets - 1)] :
                   FilterByTypeAndAttributeAndTime(
                       DecryptSearchResult(FilterByEncryptedId(Rehash(found, h))),
                       searchResult.restriction) = skipped

\* a page of two terms where a hash collision lets Phase A keep an entry of the first
\* term whose id the second term does not have, while another id is in both terms
C19_Witness ==
    /\ pc = "assemble"
    /\ Len(page.filtered) = 2
    /\ page.filtered[1] # <<>>
    /\ LET found == FoundByPage
           kept == FilterByEncryptedId(found)
       IN  \E id \in PlainIdsOf(kept, 1) : id \notin PlainIdsOf(found, 2)

(***************************************************************************)
(* The horizon of the indexer within one page                              *)
(***************************************************************************)

\* the timestamp _filterByTypeAndAttributeAndTime took the minimum id from in the
\* page in progress: the indexer does not move between that read and the lookups
FilterEndTimestamp == GetSearchEndTimestamp(searchResult.restriction)

\* C21: the indexer's currentIndexTimestamp is read once at the start of a page.  The
\* horizon reported in SearchResult.currentIndexTimestamp, the horizon of the
\* extension decision and the horizon that gives the minimum id of the time filter
\* come from one value of the indexer's horizon.  The decision depends on the horizon
\* only when restriction.end is set and the other two only when it is not, so one
\* value exists exactly when the reported end timestamp is the end timestamp of the
\* time filter of the page that search() runs.
C21_HorizonReadOnce ==
    (pc = "assemble" /\ page.kind = "search") =>
        searchResult.currentIndexTimestamp = FilterEndTimestamp

(***************************************************************************)
(* Lookups that outlive their page                                         *)
(***************************************************************************)

\* C22: once the promise returned by search or getMoreSearchResults has resolved,
\* the page makes no further change to the SearchResult: as long as no further page
\* is asked for, no lookup the page started answers into the results.
C22_ResolvedPageChangesNothing ==
    [][(pc = "idle" /\ pc' = "idle") => searchResult' = searchResult]_vars

(***************************************************************************)
(* A further page asked for no more results than there are                 *)
(***************************************************************************)

\* the page in progress or last run is a getMoreSearchResults(result, n) that found n
\* or more entries in result.results when it was called
MoreWithEnoughResults ==
    /\ page.kind = "more"
    /\ Truthy(page.maxResults)
    /\ Len(page.resultsBefore) >= page.maxResults

====
